---- MODULE Spec2Model ----
(***************************************************************************)
(* Model of garnet's RoutingUnit (RoutingUnit.cc / RoutingUnit.hh): the    *)
(* weighted routing table, the direction registry, mesh and torus          *)
(* dimension-order routing, the adaptive torus router and the dispatcher.  *)
(***************************************************************************)
EXTENDS Integers, Sequences, FiniteSets, TLC

VARIABLES
    m_routing_table,      \* vector<vector<NetDest>>: [vnet+1][link+1]
    m_weight_table,       \* vector<int>: [link+1]
    m_outports_dirn2idx,  \* map<PortDirection,int>
    m_outports_idx2dirn,  \* map<int,PortDirection>
    m_inports_dirn2idx,   \* map<PortDirection,int>
    m_inports_idx2dirn,   \* map<int,PortDirection>
    net,                  \* the network/router configuration collaborator
    ret,                  \* the last call and what it produced
    pkt,                  \* a packet forwarded hop by hop (walk specs)
    calls                 \* the arguments of the addRoute calls so far

vars == <<m_routing_table, m_weight_table, m_outports_dirn2idx,
          m_outports_idx2dirn, m_inports_dirn2idx, m_inports_idx2dirn,
          net, ret, pkt, calls>>

registry == <<m_outports_dirn2idx, m_outports_idx2dirn,
              m_inports_dirn2idx, m_inports_idx2dirn>>

tables == <<m_routing_table, m_weight_table>>

-----------------------------------------------------------------------------
(* Bounds *)

NumVnets == 2
MaxLinks == 2
MaxNode == 1
MaxRand == 2

Vnets == 0 .. (NumVnets - 1)
Nodes == 0 .. MaxNode
Rands == 0 .. MaxRand

(* Program constants *)

INFINITE_ == 10000
NoPort == 0 - 1

\* NetDest values stored in the table (one endpoint per link entry) and
\* NetDest values carried by a message.
EntryDests == { {n} : n \in Nodes }
MsgDests == (SUBSET Nodes) \ { {} }
Weights == { 0 - 1, 1, INFINITE_, INFINITE_ + 1 }

EmptyMap == [x \in {} |-> 0]
NoRet == [op |-> "none"]
NoPkt == [at |-> "none"]

\* what the Router / GarnetNetwork collaborators answer: get_id(),
\* getRoutingAlgorithm(), isVNetOrdered(), getNumRows()/getNumCols(),
\* getTorusX()/Y()/Z(), getVcsPerVnet(), get_num_vcs()
NetCfg(id, alg, ordered, rows, cols, tx, ty, tz, vpv, nvcs) ==
    [id |-> id, routing_algorithm |-> alg, ordered |-> ordered,
     num_rows |-> rows, num_cols |-> cols,
     torus_x |-> tx, torus_y |-> ty, torus_z |-> tz,
     vcs_per_vnet |-> vpv, num_vcs |-> nvcs]

\* vectors of NetDest of length 1..NumVnets handed to addRoute
RouteEntries == UNION { [1 .. n -> EntryDests] : n \in 1 .. NumVnets }

-----------------------------------------------------------------------------
(* Routing table engine *)

\* NetDest::intersectionIsNotEmpty
intersectionIsNotEmpty(a, b) == a \cap b # {}

\* vector::resize to n elements followed by the push_back loop of addRoute
RECURSIVE Resize(_, _)
Resize(tbl, n) == IF Len(tbl) >= n THEN tbl ELSE Resize(Append(tbl, <<>>), n)

addRouteTable(tbl, entry) ==
    LET grown == IF Len(entry) > Len(tbl) THEN Resize(tbl, Len(entry)) ELSE tbl
    IN  [v \in 1 .. Len(grown) |->
            IF v <= Len(entry) THEN Append(grown[v], entry[v]) ELSE grown[v]]

addRoute(routing_table_entry) ==
    /\ (IF Len(m_routing_table) = 0 THEN 0 ELSE Len(m_routing_table[1]))
          < MaxLinks
    /\ m_routing_table' = addRouteTable(m_routing_table, routing_table_entry)
    /\ calls' = Append(calls, routing_table_entry)
    /\ ret' = [op |-> "addRoute"]
    /\ UNCHANGED <<m_weight_table, registry, net, pkt>>

addWeight(link_weight) ==
    /\ Len(m_weight_table) < MaxLinks
    /\ m_weight_table' = Append(m_weight_table, link_weight)
    /\ ret' = [op |-> "addWeight"]
    /\ UNCHANGED <<m_routing_table, registry, net, pkt, calls>>

\* first loop of lookupRoutingTable: the minimum weight, starting from
\* INFINITE_, over the links whose entry intersects the destination
RECURSIVE MinWeightLoop(_, _, _, _, _)
MinWeightLoop(links, weights, dest, link, min_weight) ==
    IF link > Len(links) THEN min_weight
    ELSE MinWeightLoop(links, weights, dest, link + 1,
            IF /\ intersectionIsNotEmpty(dest, links[link])
               /\ weights[link] <= min_weight
            THEN weights[link] ELSE min_weight)

\* second loop: the links (0-based) of that weight, in index order
RECURSIVE CollectLoop(_, _, _, _, _, _)
CollectLoop(links, weights, dest, link, min_weight, acc) ==
    IF link > Len(links) THEN acc
    ELSE CollectLoop(links, weights, dest, link + 1, min_weight,
            IF /\ intersectionIsNotEmpty(dest, links[link])
               /\ weights[link] = min_weight
            THEN Append(acc, link - 1) ELSE acc)

isVNetOrdered(vnet) == vnet \in net.ordered

\* candidate index chosen at line 142-144
CandidateIndex(ordered, rnd, num_candidates) ==
    IF ~ordered THEN rnd % num_candidates ELSE 0

\* every link of the class has a weight: m_weight_table[link] is in range
WeightsInRange(rt, wt, vnet) == Len(rt[vnet + 1]) <= Len(wt)

\* the outcomes of lookupRoutingTable(vnet, msg_destination) with rand()
\* returning rnd.  Reading m_weight_table past its end is undefined: any
\* outcome (the fatal error or any link index) may result.
lookupOutcomes(rt, wt, ordered, vnet, dest, rnd) ==
    LET links == rt[vnet + 1]
    IN  IF WeightsInRange(rt, wt, vnet)
        THEN LET min_weight == MinWeightLoop(links, wt, dest, 1, INFINITE_)
                 cands == CollectLoop(links, wt, dest, 1, min_weight, <<>>)
             IN  IF Len(cands) = 0
                 THEN { [outcome |-> "fatal", port |-> NoPort] }
                 ELSE { [outcome |-> "return",
                         port |-> cands[CandidateIndex(ordered, rnd,
                                                       Len(cands)) + 1]] }
        ELSE { [outcome |-> "fatal", port |-> NoPort] } \cup
             { [outcome |-> "return", port |-> l - 1] : l \in 1 .. Len(links) }

lookupRoutingTable(vnet, msg_destination, rnd) ==
    /\ vnet < Len(m_routing_table)
    /\ \E r \in lookupOutcomes(m_routing_table, m_weight_table,
                               isVNetOrdered(vnet), vnet, msg_destination, rnd) :
          ret' = [op |-> "lookupRoutingTable", vnet |-> vnet,
                  dest |-> msg_destination, outcome |-> r.outcome,
                  port |-> r.port]
    /\ UNCHANGED <<tables, calls, registry, net, pkt>>

-----------------------------------------------------------------------------
(* Direction registry *)

Dirs == {"Local", "East", "West", "North", "South", "Up", "Down"}

\* std::map::operator[] used as an lvalue: insert or overwrite
MapPut(m, k, v) == [x \in (DOMAIN m) \cup {k} |-> IF x = k THEN v ELSE m[x]]

\* std::map::operator[] used as an rvalue: a missing key is inserted with
\* the value-initialised int 0
MapGetInsert(m, k) == IF k \in DOMAIN m THEN m ELSE MapPut(m, k, 0)

addInDirection(inport_dirn, inport_idx) ==
    /\ m_inports_dirn2idx' = MapPut(m_inports_dirn2idx, inport_dirn, inport_idx)
    /\ m_inports_idx2dirn' = MapPut(m_inports_idx2dirn, inport_idx, inport_dirn)
    /\ ret' = [op |-> "addInDirection"]
    /\ UNCHANGED <<tables, calls, m_outports_dirn2idx, m_outports_idx2dirn, net, pkt>>

addOutDirection(outport_dirn, outport_idx) ==
    /\ m_outports_dirn2idx' =
          MapPut(m_outports_dirn2idx, outport_dirn, outport_idx)
    /\ m_outports_idx2dirn' =
          MapPut(m_outports_idx2dirn, outport_idx, outport_dirn)
    /\ ret' = [op |-> "addOutDirection"]
    /\ UNCHANGED <<tables, calls, m_inports_dirn2idx, m_inports_idx2dirn, net, pkt>>

-----------------------------------------------------------------------------
(* Mesh dimension-order routing *)

Abs(n) == IF n < 0 THEN 0 - n ELSE n

\* the direction outportComputeXY decides on, or the assertion or panic
\* that stops it
XYDirectionYFirst(cfg, dest_id, inport_dirn) ==
    LET num_cols == cfg.num_cols
        my_x == cfg.id % num_cols
        my_y == cfg.id \div num_cols
        dest_x == dest_id % num_cols
        dest_y == dest_id \div num_cols
        x_hops == Abs(dest_x - my_x)
        y_hops == Abs(dest_y - my_y)
        x_dirn == (dest_x >= my_x)
        y_dirn == (dest_y >= my_y)
    IN  IF ~(cfg.num_rows > 0 /\ num_cols > 0) THEN "assert"
        ELSE IF x_hops = 0 /\ y_hops = 0 THEN "assert"
        ELSE IF y_hops > 0
        THEN IF y_dirn
             THEN (IF inport_dirn # "North" THEN "North" ELSE "assert")
             ELSE (IF inport_dirn # "South" THEN "South" ELSE "assert")
        ELSE IF x_hops > 0
        THEN IF x_dirn
             THEN (IF inport_dirn \in {"Local", "West"} THEN "East"
                   ELSE "assert")
             ELSE (IF inport_dirn \in {"Local", "East"} THEN "West"
                   ELSE "assert")
        ELSE "panic"

XYDirection(cfg, dest_id, inport_dirn) ==
    LET num_cols == cfg.num_cols
        my_x == cfg.id % num_cols
        my_y == cfg.id \div num_cols
        dest_x == dest_id % num_cols
        dest_y == dest_id \div num_cols
        x_hops == Abs(dest_x - my_x)
        y_hops == Abs(dest_y - my_y)
        x_dirn == (dest_x >= my_x)
        y_dirn == (dest_y >= my_y)
    IN  IF ~(cfg.num_rows > 0 /\ num_cols > 0) THEN "assert"
        ELSE IF x_hops = 0 /\ y_hops = 0 THEN "assert"
        ELSE IF x_hops > 0
        THEN IF x_dirn
             THEN (IF inport_dirn \in {"Local", "West"} THEN "East"
                   ELSE "assert")
             ELSE (IF inport_dirn \in {"Local", "East"} THEN "West"
                   ELSE "assert")
        ELSE IF y_hops > 0
        THEN IF y_dirn
             THEN (IF inport_dirn # "North" THEN "North" ELSE "assert")
             ELSE (IF inport_dirn # "South" THEN "South" ELSE "assert")
        ELSE "panic"

\* outportComputeXY: the direction, then m_outports_dirn2idx[outport_dirn],
\* which inserts a missing direction with port 0; dirn2idx is the map
\* the call leaves behind
XYResult(dirn2idx, cfg, dest_id, inport_dirn) ==
    LET outport_dirn == XYDirection(cfg, dest_id, inport_dirn)
    IN  IF outport_dirn \in {"assert", "panic"}
        THEN [outcome |-> outport_dirn, dirn |-> "Unknown", port |-> NoPort,
              dirn2idx |-> dirn2idx]
        ELSE [outcome |-> "return", dirn |-> outport_dirn,
              port |-> MapGetInsert(dirn2idx, outport_dirn)[outport_dirn],
              dirn2idx |-> MapGetInsert(dirn2idx, outport_dirn)]

-----------------------------------------------------------------------------
(* Torus dimension-order routing *)

\* the lambda torus_distance: <<distance, forward>>
torus_distance_strict(curr, dest, dim_size) ==
    LET forward_dist == (dest - curr + dim_size) % dim_size
        backward_dist == (curr - dest + dim_size) % dim_size
    IN  IF forward_dist < backward_dist
        THEN [dist |-> forward_dist, forward |-> TRUE]
        ELSE [dist |-> backward_dist, forward |-> FALSE]

\* the lambda without the backward branch
torus_distance_forward(curr, dest, dim_size) ==
    [dist |-> (dest - curr + dim_size) % dim_size, forward |-> TRUE]

torus_distance(curr, dest, dim_size) ==
    LET forward_dist == (dest - curr + dim_size) % dim_size
        backward_dist == (curr - dest + dim_size) % dim_size
    IN  IF forward_dist <= backward_dist
        THEN [dist |-> forward_dist, forward |-> TRUE]
        ELSE [dist |-> backward_dist, forward |-> FALSE]

\* router id to 3D coordinates, as both torus routers decode it
TorusCoord(cfg, id) ==
    LET remainder == id % (cfg.torus_x * cfg.torus_y)
    IN  [x |-> remainder % cfg.torus_x,
         y |-> remainder \div cfg.torus_x,
         z |-> id \div (cfg.torus_x * cfg.torus_y)]

\* the three <<distance, forward>> pairs of a query
TorusDists(cfg, dest_id) ==
    LET my == TorusCoord(cfg, cfg.id)
        dst == TorusCoord(cfg, dest_id)
    IN  [x |-> torus_distance(my.x, dst.x, cfg.torus_x),
         y |-> torus_distance(my.y, dst.y, cfg.torus_y),
         z |-> torus_distance(my.z, dst.z, cfg.torus_z)]

\* the if / else-if chain X, Y, Z; "Unknown" when every distance is zero
DORDirectionYFirst(d) ==
    IF d.y.dist > 0 THEN (IF d.y.forward THEN "North" ELSE "South")
    ELSE IF d.x.dist > 0 THEN (IF d.x.forward THEN "East" ELSE "West")
    ELSE IF d.z.dist > 0 THEN (IF d.z.forward THEN "Up" ELSE "Down")
    ELSE "Unknown"

DORDirection(d) ==
    IF d.x.dist > 0 THEN (IF d.x.forward THEN "East" ELSE "West")
    ELSE IF d.y.dist > 0 THEN (IF d.y.forward THEN "North" ELSE "South")
    ELSE IF d.z.dist > 0 THEN (IF d.z.forward THEN "Up" ELSE "Down")
    ELSE "Unknown"

\* the same chain as written a second time for the escape vc in
\* outportComputeTorus3DAdaptive
EscapeDirectionZFirst(d) ==
    IF d.z.dist > 0 THEN (IF d.z.forward THEN "Up" ELSE "Down")
    ELSE IF d.y.dist > 0 THEN (IF d.y.forward THEN "North" ELSE "South")
    ELSE IF d.x.dist > 0 THEN (IF d.x.forward THEN "East" ELSE "West")
    ELSE "Unknown"

EscapeDirection(d) ==
    IF d.x.dist > 0 THEN (IF d.x.forward THEN "East" ELSE "West")
    ELSE IF d.y.dist > 0 THEN (IF d.y.forward THEN "North" ELSE "South")
    ELSE IF d.z.dist > 0 THEN (IF d.z.forward THEN "Up" ELSE "Down")
    ELSE "Unknown"

\* outportComputeTorus3D: the direction, then the checked registry lookup
Torus3DResult(dirn2idx, cfg, dest_id) ==
    LET outport_dirn == DORDirection(TorusDists(cfg, dest_id))
    IN  IF outport_dirn = "Unknown"
        THEN [outcome |-> "panic", dirn |-> outport_dirn, port |-> NoPort]
        ELSE IF outport_dirn \notin DOMAIN dirn2idx
        THEN [outcome |-> "panic", dirn |-> outport_dirn, port |-> NoPort]
        ELSE [outcome |-> "return", dirn |-> outport_dirn,
              port |-> dirn2idx[outport_dirn]]

outportComputeTorus3D(dest_id) ==
    LET r == Torus3DResult(m_outports_dirn2idx, net, dest_id)
    IN  /\ ret' = [op |-> "outportComputeTorus3D", dest |-> dest_id,
                   outcome |-> r.outcome, dirn |-> r.dirn, port |-> r.port]
        /\ UNCHANGED <<tables, calls, registry, net>>

-----------------------------------------------------------------------------
(* Adaptive torus routing *)

INT_MAX == 2147483647

\* the vc ids 1.. of every vnet that the two helper loops visit
AdaptiveVcIds(cfg) ==
    LET num_vnets == cfg.num_vcs \div cfg.vcs_per_vnet
    IN  { vnet * cfg.vcs_per_vnet + vc_offset :
            vnet \in 0 .. (num_vnets - 1),
            vc_offset \in 1 .. (cfg.vcs_per_vnet - 1) }

\* idle_p: the vc ids of the output unit for which is_vc_idle() is true
checkAdaptiveVCAvailability(idle_p, cfg) ==
    \E vc_id \in AdaptiveVcIds(cfg) : vc_id \in idle_p

getDirectionCongestionScore(idle_p, cfg, rnd) ==
    LET total_adaptive_vcs == Cardinality(AdaptiveVcIds(cfg))
        idle_vcs == Cardinality(AdaptiveVcIds(cfg) \cap idle_p)
    IN  (IF total_adaptive_vcs > 0 THEN total_adaptive_vcs - idle_vcs ELSE 100)
        + (rnd % 3)

\* adaptive_candidates, in the order X, Y, Z in which they are pushed
AdaptiveCandidates(d) ==
    (IF d.x.dist > 0 THEN << IF d.x.forward THEN "East" ELSE "West" >> ELSE <<>>)
    \o (IF d.y.dist > 0 THEN << IF d.y.forward THEN "North" ELSE "South" >> ELSE <<>>)
    \o (IF d.z.dist > 0 THEN << IF d.z.forward THEN "Up" ELSE "Down" >> ELSE <<>>)

\* the candidates for which the loop calls getDirectionCongestionScore
ScoredCandidates(dirn2idx, cfg, cands, idle) ==
    { i \in 1 .. Len(cands) :
        /\ cands[i] \in DOMAIN dirn2idx
        /\ checkAdaptiveVCAvailability(idle[dirn2idx[cands[i]]], cfg) }

\* the loop over adaptive_candidates; rands[i] is what rand() returns
\* while candidate i is scored
RECURSIVE AdaptiveLoopFirstOnly(_, _, _, _, _, _, _)
AdaptiveLoopFirstOnly(dirn2idx, cfg, cands, idle, rands, i, best) ==
    IF i > 1 \/ i > Len(cands) THEN best
    ELSE IF cands[i] \notin DOMAIN dirn2idx
    THEN AdaptiveLoopFirstOnly(dirn2idx, cfg, cands, idle, rands, i + 1, best)
    ELSE LET outport_idx == dirn2idx[cands[i]]
             has_adaptive_vc ==
                 checkAdaptiveVCAvailability(idle[outport_idx], cfg)
             congestion_score ==
                 getDirectionCongestionScore(idle[outport_idx], cfg, rands[i])
         IN  AdaptiveLoopFirstOnly(dirn2idx, cfg, cands, idle, rands, i + 1,
                 IF has_adaptive_vc /\ congestion_score < best.best_score
                 THEN [best_score |-> congestion_score,
                       best_direction |-> cands[i],
                       found_adaptive_path |-> TRUE]
                 ELSE best)

\* the loop with <= in place of <: the last of equal scores wins
RECURSIVE AdaptiveLoopLastWins(_, _, _, _, _, _, _)
AdaptiveLoopLastWins(dirn2idx, cfg, cands, idle, rands, i, best) ==
    IF i > Len(cands) THEN best
    ELSE IF cands[i] \notin DOMAIN dirn2idx
    THEN AdaptiveLoopLastWins(dirn2idx, cfg, cands, idle, rands, i + 1, best)
    ELSE LET outport_idx == dirn2idx[cands[i]]
             has_adaptive_vc ==
                 checkAdaptiveVCAvailability(idle[outport_idx], cfg)
             congestion_score ==
                 getDirectionCongestionScore(idle[outport_idx], cfg, rands[i])
         IN  AdaptiveLoopLastWins(dirn2idx, cfg, cands, idle, rands, i + 1,
                 IF has_adaptive_vc /\ congestion_score <= best.best_score
                 THEN [best_score |-> congestion_score,
                       best_direction |-> cands[i],
                       found_adaptive_path |-> TRUE]
                 ELSE best)

RECURSIVE AdaptiveLoop(_, _, _, _, _, _, _)
AdaptiveLoop(dirn2idx, cfg, cands, idle, rands, i, best) ==
    IF i > Len(cands) THEN best
    ELSE IF cands[i] \notin DOMAIN dirn2idx
    THEN AdaptiveLoop(dirn2idx, cfg, cands, idle, rands, i + 1, best)
    ELSE LET outport_idx == dirn2idx[cands[i]]
             has_adaptive_vc ==
                 checkAdaptiveVCAvailability(idle[outport_idx], cfg)
             congestion_score ==
                 getDirectionCongestionScore(idle[outport_idx], cfg, rands[i])
         IN  AdaptiveLoop(dirn2idx, cfg, cands, idle, rands, i + 1,
                 IF has_adaptive_vc /\ congestion_score < best.best_score
                 THEN [best_score |-> congestion_score,
                       best_direction |-> cands[i],
                       found_adaptive_path |-> TRUE]
                 ELSE best)

\* what outportComputeTorus3DAdaptive does after the loop: the escape
\* fallback to dimension order, then the checked registry lookup.  d are the
\* distances, cands the candidates, best the loop's result.
AdaptiveResult(dirn2idx, d, cands, best) ==
    LET use_escape_vc == ~best.found_adaptive_path
        best_direction == IF use_escape_vc THEN EscapeDirection(d)
                          ELSE best.best_direction
    IN  IF Len(cands) = 0
        THEN [outcome |-> "panic", dirn |-> "Unknown", port |-> NoPort,
              escape |-> FALSE]
        ELSE IF best_direction \notin DOMAIN dirn2idx
        THEN [outcome |-> "panic", dirn |-> best_direction, port |-> NoPort,
              escape |-> use_escape_vc]
        ELSE [outcome |-> "return", dirn |-> best_direction,
              port |-> dirn2idx[best_direction], escape |-> use_escape_vc]

\* the output ports whose vc state a query reads
CandidatePorts(dirn2idx, cands) ==
    { dirn2idx[cands[i]] :
        i \in { j \in 1 .. Len(cands) : cands[j] \in DOMAIN dirn2idx } }

BestInit ==
    [best_score |-> INT_MAX, best_direction |-> "Unknown",
     found_adaptive_path |-> FALSE]

\* one call of outportComputeTorus3DAdaptive for destination dest_id: idle
\* is the vc state of the output units at curTick(), rs the values rand()
\* hands out to the scored candidates; Return(idle, rands, r) takes the
\* result.
\* (Each intermediate value is bound once, as the code computes it once.)
AdaptiveCall(dirn2idx, cfg, dest_id, Return(_, _, _)) ==
    \E d \in { TorusDists(cfg, dest_id) } :
    \E cands \in { AdaptiveCandidates(d) } :
    \E idle \in [CandidatePorts(dirn2idx, cands) -> SUBSET AdaptiveVcIds(cfg)] :
    \E scored \in { ScoredCandidates(dirn2idx, cfg, cands, idle) } :
    \E rs \in [scored -> Rands] :
    \E rands \in { [i \in 1 .. Len(cands) |->
                      IF i \in scored THEN rs[i] ELSE 0] } :
    \E best \in { AdaptiveLoop(dirn2idx, cfg, cands, idle, rands, 1, BestInit) } :
    \E r \in { AdaptiveResult(dirn2idx, d, cands, best) } :
        Return(idle, rands, r)

outportComputeTorus3DAdaptive(dest_id) ==
    /\ AdaptiveCall(m_outports_dirn2idx, net, dest_id,
          LAMBDA idle, rands, r :
            ret' = [op |-> "outportComputeTorus3DAdaptive",
                    dest |-> dest_id, idle |-> idle, rands |-> rands,
                    outcome |-> r.outcome, dirn |-> r.dirn,
                    port |-> r.port, escape |-> r.escape])
    /\ UNCHANGED <<tables, calls, registry, net>>

-----------------------------------------------------------------------------
(* Dispatcher *)

Algorithms ==
    {"TABLE_", "XY_", "CUSTOM_", "TORUS3D_", "TORUS3D_ADAPTIVE_", "OTHER"}

\* the final assert(outport != -1) of outportCompute
AssertOutport(r) ==
    IF r.outcome = "return" /\ r.port = NoPort THEN "assert" ELSE r.outcome

\* outport = lookupRoutingTable(route.vnet, route.net_dest), which draws
\* rand() for an unordered vnet; checked is FALSE on the early return of
\* the destination-local case
DispatchTable(route, checked) ==
    /\ route.vnet < Len(m_routing_table)
    /\ \E rnd \in (IF isVNetOrdered(route.vnet) THEN {0} ELSE Rands) :
       \E r \in lookupOutcomes(m_routing_table, m_weight_table,
                               isVNetOrdered(route.vnet), route.vnet,
                               route.net_dest, rnd) :
          ret' = [op |-> "outportCompute", dest_router |-> route.dest_router,
                  via |-> "lookupRoutingTable",
                  args |-> [vnet |-> route.vnet, net_dest |-> route.net_dest],
                  outcome |-> IF checked THEN AssertOutport(r) ELSE r.outcome,
                  port |-> r.port, dirn |-> "None", registered |-> TRUE]
    /\ UNCHANGED <<tables, calls, registry, net, pkt>>

DispatchXY(route, inport_dirn) ==
    LET r == XYResult(m_outports_dirn2idx, net, route.dest_router, inport_dirn)
    IN  /\ ret' = [op |-> "outportCompute", dest_router |-> route.dest_router,
                   via |-> "outportComputeXY",
                   args |-> [inport_dirn |-> inport_dirn],
                   outcome |-> AssertOutport(r), port |-> r.port,
                   dirn |-> r.dirn,
                   registered |-> r.dirn \in DOMAIN m_outports_dirn2idx]
        /\ m_outports_dirn2idx' = r.dirn2idx
        /\ UNCHANGED <<tables, calls, m_outports_idx2dirn, m_inports_dirn2idx,
                       m_inports_idx2dirn, net, pkt>>

\* outportComputeCustom: panic("placeholder executed")
DispatchCustom(route) ==
    /\ ret' = [op |-> "outportCompute", dest_router |-> route.dest_router,
               via |-> "outportComputeCustom", args |-> <<>>,
               outcome |-> "panic", port |-> NoPort, dirn |-> "None",
               registered |-> TRUE]
    /\ UNCHANGED <<tables, calls, registry, net, pkt>>

DispatchTorus3D(route) ==
    LET r == Torus3DResult(m_outports_dirn2idx, net, route.dest_router)
    IN  /\ ret' = [op |-> "outportCompute", dest_router |-> route.dest_router,
                   via |-> "outportComputeTorus3D", args |-> <<>>,
                   outcome |-> AssertOutport(r), port |-> r.port,
                   dirn |-> r.dirn,
                   registered |-> r.dirn \in DOMAIN m_outports_dirn2idx]
        /\ UNCHANGED <<tables, calls, registry, net, pkt>>

DispatchTorus3DAdaptive(route) ==
    /\ AdaptiveCall(m_outports_dirn2idx, net, route.dest_router,
          LAMBDA idle, rands, r :
            ret' = [op |-> "outportCompute",
                    dest_router |-> route.dest_router,
                    via |-> "outportComputeTorus3DAdaptive",
                    args |-> [idle |-> idle],
                    outcome |-> AssertOutport(r), port |-> r.port,
                    dirn |-> r.dirn,
                    registered |-> r.dirn \in DOMAIN m_outports_dirn2idx])
    /\ UNCHANGED <<tables, calls, registry, net, pkt>>

\* the dispatcher without its destination-local case
outportComputeNoLocal(route, inport_dirn) ==
    CASE net.routing_algorithm = "TABLE_" -> DispatchTable(route, TRUE)
      [] net.routing_algorithm = "XY_" -> DispatchXY(route, inport_dirn)
      [] net.routing_algorithm = "CUSTOM_" -> DispatchCustom(route)
      [] net.routing_algorithm = "TORUS3D_" -> DispatchTorus3D(route)
      [] net.routing_algorithm = "TORUS3D_ADAPTIVE_" ->
            DispatchTorus3DAdaptive(route)
      [] OTHER -> DispatchTable(route, TRUE)

outportCompute(route, inport_dirn) ==
    IF route.dest_router = net.id
    THEN DispatchTable(route, FALSE)
    ELSE CASE net.routing_algorithm = "TABLE_" ->
                DispatchTable(route, TRUE)
           [] net.routing_algorithm = "XY_" -> DispatchXY(route, inport_dirn)
           [] net.routing_algorithm = "CUSTOM_" -> DispatchCustom(route)
           [] net.routing_algorithm = "TORUS3D_" -> DispatchTorus3D(route)
           [] net.routing_algorithm = "TORUS3D_ADAPTIVE_" ->
                DispatchTorus3DAdaptive(route)
           [] OTHER -> DispatchTable(route, TRUE)

-----------------------------------------------------------------------------
(* Specification of the routing table engine *)

InitTable ==
    /\ m_routing_table = <<>>
    /\ m_weight_table = <<>>
    /\ calls = <<>>
    /\ m_outports_dirn2idx = EmptyMap
    /\ m_outports_idx2dirn = EmptyMap
    /\ m_inports_dirn2idx = EmptyMap
    /\ m_inports_idx2dirn = EmptyMap
    /\ \E o \in SUBSET Vnets :
          net = NetCfg(0, "TABLE_", o, 1, 1, 1, 1, 1, 1, NumVnets)
    /\ ret = NoRet
    /\ pkt = NoPkt

NextTable ==
    \/ \E e \in RouteEntries : addRoute(e)
    \/ \E w \in Weights : addWeight(w)
    \/ \E v \in Vnets, d \in MsgDests, r \in Rands : lookupRoutingTable(v, d, r)

SpecTable == InitTable /\ [][NextTable]_vars

-----------------------------------------------------------------------------
(* Specifications of the torus routers as functions of one query *)

MaxDim == 4
MaxRouters == 8
MaxVcsPerVnet == 2
MaxAdaptiveVcs == 2

\* the registry a torus router gets when the topology registers every
\* direction, port numbers in registration order
DirOrder == <<"Local", "East", "West", "North", "South", "Up", "Down">>
FullDirn2Idx == [d \in Dirs |-> (CHOOSE i \in 1 .. 7 : DirOrder[i] = d) - 1]
FullIdx2Dirn == [i \in 0 .. 6 |-> DirOrder[i + 1]]

\* the same registry when the directions in M were never registered
Dirn2IdxWithout(M) == [d \in Dirs \ M |-> FullDirn2Idx[d]]
Idx2DirnWithout(M) ==
    [i \in { FullDirn2Idx[d] : d \in Dirs \ M } |-> FullIdx2Dirn[i]]

MissingSets == { {} } \cup { {d} : d \in Dirs \ {"Local"} }

\* (vcs per vnet, number of vnets) of the router
VcConfigs ==
    { c \in (1 .. MaxVcsPerVnet) \X (1 .. NumVnets) :
        (c[1] - 1) * c[2] <= MaxAdaptiveVcs }

\* torus sizes of at most maxdim per axis and maxrouters routers
TorusSizes(maxdim, maxrouters) ==
    { t \in (1 .. maxdim) \X (1 .. maxdim) \X (1 .. maxdim) :
        t[1] * t[2] * t[3] <= maxrouters }

InitTorus(sizes, missing, vcconfigs, alg) ==
    /\ m_routing_table = <<>>
    /\ m_weight_table = <<>>
    /\ calls = <<>>
    /\ \E M \in missing :
          /\ m_outports_dirn2idx = Dirn2IdxWithout(M)
          /\ m_outports_idx2dirn = Idx2DirnWithout(M)
    /\ m_inports_dirn2idx = EmptyMap
    /\ m_inports_idx2dirn = EmptyMap
    /\ \E t \in sizes, vc \in vcconfigs :
       \E id \in 0 .. (t[1] * t[2] * t[3] - 1) :
          net = NetCfg(id, alg, {}, 1, 1, t[1], t[2], t[3],
                       vc[1], vc[1] * vc[2])
    /\ ret = NoRet
    /\ \E dest_id \in 0 .. (net.torus_x * net.torus_y * net.torus_z - 1) :
          pkt = [at |-> "head", dest_router |-> dest_id]

\* the input unit computes the route of a head flit once
RouteComputed == pkt' = [pkt EXCEPT !.at = "routed"]

InitDOR ==
    InitTorus(TorusSizes(MaxDim, MaxDim * MaxDim * MaxDim), { {} },
              { <<1, 1>> }, "TORUS3D_")

NextDOR ==
    /\ pkt.at = "head"
    /\ outportComputeTorus3D(pkt.dest_router)
    /\ RouteComputed

SpecDOR == InitDOR /\ [][NextDOR]_vars

InitAdaptive ==
    InitTorus(TorusSizes(MaxRouters, MaxRouters), MissingSets, VcConfigs,
              "TORUS3D_ADAPTIVE_")

NextAdaptive ==
    /\ pkt.at = "head"
    /\ outportComputeTorus3DAdaptive(pkt.dest_router)
    /\ RouteComputed

SpecAdaptive == InitAdaptive /\ [][NextAdaptive]_vars

-----------------------------------------------------------------------------
(* Specification of a packet forwarded hop by hop across a mesh by XY *)

MaxMesh == 3

\* the mesh: router id = y * cols + x, East/West along x, North/South along y
MeshDirOrder == <<"East", "West", "North", "South">>

MeshHasLink(r, dirn, rows, cols) ==
    CASE dirn = "East" -> (r % cols) < cols - 1
      [] dirn = "West" -> (r % cols) > 0
      [] dirn = "North" -> (r \div cols) < rows - 1
      [] dirn = "South" -> (r \div cols) > 0
      [] OTHER -> FALSE

MeshNeighbor(r, dirn, cols) ==
    CASE dirn = "East" -> r + 1
      [] dirn = "West" -> r - 1
      [] dirn = "North" -> r + cols
      [] dirn = "South" -> r - cols

\* a flit leaving through dirn arrives on the inport of the opposite name
Opposite(dirn) ==
    CASE dirn = "East" -> "West"
      [] dirn = "West" -> "East"
      [] dirn = "North" -> "South"
      [] dirn = "South" -> "North"

\* the registry of mesh router r: Local at port 0, then its links
MeshDirn2Idx(r, rows, cols) ==
    LET present == { i \in 1 .. 4 : MeshHasLink(r, MeshDirOrder[i], rows, cols) }
    IN  [d \in {"Local"} \cup { MeshDirOrder[i] : i \in present } |->
            IF d = "Local" THEN 0
            ELSE LET i == CHOOSE j \in present : MeshDirOrder[j] = d
                 IN  Cardinality({ j \in present : j <= i })]

MeshIdx2Dirn(r, rows, cols) ==
    LET m == MeshDirn2Idx(r, rows, cols)
    IN  [p \in { m[d] : d \in DOMAIN m } |-> CHOOSE d \in DOMAIN m : m[d] = p]

\* the RoutingUnit of mesh router r after the topology registered its ports
MeshRegistryOf(r, rows, cols) ==
    [out_dirn2idx |-> MeshDirn2Idx(r, rows, cols),
     out_idx2dirn |-> MeshIdx2Dirn(r, rows, cols),
     in_dirn2idx |-> MeshDirn2Idx(r, rows, cols),
     in_idx2dirn |-> MeshIdx2Dirn(r, rows, cols)]

InitMesh ==
    /\ m_routing_table = <<>>
    /\ m_weight_table = <<>>
    /\ calls = <<>>
    /\ \E rows \in 1 .. MaxMesh, cols \in 1 .. MaxMesh :
       \E src \in 0 .. (rows * cols - 1), dst \in 0 .. (rows * cols - 1) :
          /\ src # dst
          /\ net = NetCfg(src, "XY_", {}, rows, cols, 1, 1, 1, 1, NumVnets)
          /\ LET reg == MeshRegistryOf(src, rows, cols)
             IN  /\ m_outports_dirn2idx = reg.out_dirn2idx
                 /\ m_outports_idx2dirn = reg.out_idx2dirn
                 /\ m_inports_dirn2idx = reg.in_dirn2idx
                 /\ m_inports_idx2dirn = reg.in_idx2dirn
          /\ pkt = [at |-> "head", src |-> src, dest_router |-> dst,
                    inport_dirn |-> "Local", hops |-> 0]
    /\ ret = NoRet

\* the router holding the head flit computes its outport with
\* outportComputeXY; the flit crosses that port's link to the next router
XYHop ==
    /\ pkt.at = "head"
    /\ net.id # pkt.dest_router
    /\ LET r == XYResult(m_outports_dirn2idx, net, pkt.dest_router,
                         pkt.inport_dirn)
           link == IF r.port \in DOMAIN m_outports_idx2dirn
                   THEN m_outports_idx2dirn[r.port] ELSE "Unknown"
       IN  /\ ret' = [op |-> "outportComputeXY", my_id |-> net.id,
                      dest |-> pkt.dest_router,
                      inport_dirn |-> pkt.inport_dirn,
                      outcome |-> r.outcome, dirn |-> r.dirn, port |-> r.port,
                      registered |-> r.dirn \in DOMAIN m_outports_dirn2idx]
           /\ IF r.outcome # "return"
              THEN /\ pkt' = [pkt EXCEPT !.at = "aborted"]
                   /\ UNCHANGED <<registry, net>>
              ELSE IF ~MeshHasLink(net.id, link, net.num_rows, net.num_cols)
              THEN /\ pkt' = [pkt EXCEPT !.at = "misrouted"]
                   /\ m_outports_dirn2idx' = r.dirn2idx
                   /\ UNCHANGED <<m_outports_idx2dirn, m_inports_dirn2idx,
                                  m_inports_idx2dirn, net>>
              ELSE LET nxt == MeshNeighbor(net.id, link, net.num_cols)
                   IN  /\ pkt' = [pkt EXCEPT
                                    !.at = IF nxt = pkt.dest_router
                                           THEN "at_dest" ELSE "head",
                                    !.inport_dirn = Opposite(link),
                                    !.hops = pkt.hops + 1]
                       /\ net' = [net EXCEPT !.id = nxt]
                       /\ LET reg == MeshRegistryOf(nxt, net.num_rows,
                                                    net.num_cols)
                          IN  /\ m_outports_dirn2idx' = reg.out_dirn2idx
                              /\ m_outports_idx2dirn' = reg.out_idx2dirn
                              /\ m_inports_dirn2idx' = reg.in_dirn2idx
                              /\ m_inports_idx2dirn' = reg.in_idx2dirn
    /\ UNCHANGED <<tables, calls>>

NextMesh == XYHop

SpecMesh == InitMesh /\ [][NextMesh]_vars

-----------------------------------------------------------------------------
(* Specification of the escape-channel dependencies on a torus *)

MaxChain == 6

\* the torus: East/West, North/South, Up/Down are +1/-1 on x, y, z with
\* wraparound
TorusId(cfg, c) == c.z * (cfg.torus_x * cfg.torus_y) + c.y * cfg.torus_x + c.x

TorusNeighbor(cfg, r, dirn) ==
    LET c == TorusCoord(cfg, r)
    IN  CASE dirn = "East" ->
               TorusId(cfg, [c EXCEPT !.x = (c.x + 1) % cfg.torus_x])
          [] dirn = "West" ->
               TorusId(cfg, [c EXCEPT !.x = (c.x + cfg.torus_x - 1) % cfg.torus_x])
          [] dirn = "North" ->
               TorusId(cfg, [c EXCEPT !.y = (c.y + 1) % cfg.torus_y])
          [] dirn = "South" ->
               TorusId(cfg, [c EXCEPT !.y = (c.y + cfg.torus_y - 1) % cfg.torus_y])
          [] dirn = "Up" ->
               TorusId(cfg, [c EXCEPT !.z = (c.z + 1) % cfg.torus_z])
          [] dirn = "Down" ->
               TorusId(cfg, [c EXCEPT !.z = (c.z + cfg.torus_z - 1) % cfg.torus_z])

\* the direction the escape channel takes at router r toward dest
EscapeRoute(cfg, r, dest) ==
    EscapeDirection(TorusDists([cfg EXCEPT !.id = r], dest))

\* a packet routed on the escape channel occupies the channel of the link
\* it chose at net.id
InitEscape ==
    /\ m_routing_table = <<>>
    /\ m_weight_table = <<>>
    /\ calls = <<>>
    /\ m_outports_dirn2idx = Dirn2IdxWithout({})
    /\ m_outports_idx2dirn = Idx2DirnWithout({})
    /\ m_inports_dirn2idx = EmptyMap
    /\ m_inports_idx2dirn = EmptyMap
    /\ \E t \in TorusSizes(MaxDim, MaxRouters) :
       \E id \in 0 .. (t[1] * t[2] * t[3] - 1),
          dest \in 0 .. (t[1] * t[2] * t[3] - 1) :
          /\ id # dest
          /\ net = NetCfg(id, "TORUS3D_ADAPTIVE_", {}, 1, 1,
                          t[1], t[2], t[3], 1, 1)
          /\ pkt = [at |-> "escape",
                    start |-> <<id, EscapeRoute(net, id, dest)>>,
                    link |-> <<id, EscapeRoute(net, id, dest)>>,
                    steps |-> 0]
    /\ ret = NoRet

\* a packet for dest holds the escape channel of pkt.link, has arrived at
\* the router behind it and is routed there on the escape channel again:
\* the held channel now waits for the channel of the link chosen there
EscapeDependency ==
    /\ pkt.at = "escape"
    /\ pkt.steps < MaxChain
    /\ \E dest \in 0 .. (net.torus_x * net.torus_y * net.torus_z - 1) :
         LET nxt == TorusNeighbor(net, pkt.link[1], pkt.link[2])
         IN  /\ EscapeRoute(net, pkt.link[1], dest) = pkt.link[2]
             /\ nxt # dest
             /\ net' = [net EXCEPT !.id = nxt]
             /\ pkt' = [pkt EXCEPT
                          !.link = <<nxt, EscapeRoute(net, nxt, dest)>>,
                          !.steps = pkt.steps + 1]
             /\ ret' = [op |-> "outportComputeTorus3DAdaptive",
                        dest |-> dest, outcome |-> "return",
                        dirn |-> EscapeRoute(net, nxt, dest),
                        port |-> m_outports_dirn2idx[EscapeRoute(net, nxt, dest)],
                        escape |-> TRUE]
    /\ UNCHANGED <<tables, calls, registry>>

NextEscape == EscapeDependency

SpecEscape == InitEscape /\ [][NextEscape]_vars

-----------------------------------------------------------------------------
(* Specification of a packet forwarded hop by hop across a torus *)

\* the packet takes the link of the direction that came back and is a head
\* flit again at the router behind it, or has arrived
TorusForward(r) ==
    IF r.outcome # "return"
    THEN /\ pkt' = [pkt EXCEPT !.at = "aborted"]
         /\ UNCHANGED net
    ELSE LET nxt == TorusNeighbor(net, net.id, r.dirn)
         IN  /\ pkt' = [pkt EXCEPT
                          !.at = IF nxt = pkt.dest_router
                                 THEN "at_dest" ELSE "head",
                          !.hops = pkt.hops + 1]
             /\ net' = [net EXCEPT !.id = nxt]

InitTorusWalk ==
    /\ m_routing_table = <<>>
    /\ m_weight_table = <<>>
    /\ calls = <<>>
    /\ m_outports_dirn2idx = FullDirn2Idx
    /\ m_outports_idx2dirn = FullIdx2Dirn
    /\ m_inports_dirn2idx = EmptyMap
    /\ m_inports_idx2dirn = EmptyMap
    /\ \E t \in TorusSizes(MaxDim, MaxRouters), vc \in VcConfigs,
          alg \in {"TORUS3D_", "TORUS3D_ADAPTIVE_"} :
       \E id \in 0 .. (t[1] * t[2] * t[3] - 1),
          dest \in 0 .. (t[1] * t[2] * t[3] - 1) :
          /\ id # dest
          /\ net = NetCfg(id, alg, {}, 1, 1, t[1], t[2], t[3],
                          vc[1], vc[1] * vc[2])
          /\ pkt = [at |-> "head", dest_router |-> dest, src_router |-> id,
                    hops |-> 0]
    /\ ret = NoRet

\* one hop routed by outportComputeTorus3D
TorusHopDOR ==
    /\ pkt.at = "head"
    /\ net.routing_algorithm = "TORUS3D_"
    /\ \E r \in { Torus3DResult(m_outports_dirn2idx, net, pkt.dest_router) } :
          /\ ret' = [op |-> "outportComputeTorus3D",
                     dest |-> pkt.dest_router, outcome |-> r.outcome,
                     dirn |-> r.dirn, port |-> r.port]
          /\ TorusForward(r)
    /\ UNCHANGED <<tables, calls, registry>>

\* one hop routed by outportComputeTorus3DAdaptive, under any vc state and
\* any values of rand()
TorusHopAdaptive ==
    /\ pkt.at = "head"
    /\ net.routing_algorithm = "TORUS3D_ADAPTIVE_"
    /\ AdaptiveCall(m_outports_dirn2idx, net, pkt.dest_router,
          LAMBDA idle, rands, r :
            /\ ret' = [op |-> "outportComputeTorus3DAdaptive",
                       dest |-> pkt.dest_router, outcome |-> r.outcome,
                       dirn |-> r.dirn, port |-> r.port,
                       escape |-> r.escape]
            /\ TorusForward(r))
    /\ UNCHANGED <<tables, calls, registry>>

NextTorusWalk == TorusHopDOR \/ TorusHopAdaptive

SpecTorusWalk == InitTorusWalk /\ [][NextTorusWalk]_vars

-----------------------------------------------------------------------------
(* Specification of one router: registry built, then routes computed *)

MaxNetDim == 2
MaxNetRouters == 2
MaxRegistered == 1
MaxPort == 1

InportDirns == {"Local", "East", "West", "North", "South"}

\* the router after the topology added its first link: one entry per vnet
\* (the endpoint behind the link) and the link's weight
InitRouter ==
    /\ m_routing_table = addRouteTable(<<>>, [v \in 1 .. NumVnets |-> {0}])
    /\ m_weight_table = <<1>>
    /\ calls = << [v \in 1 .. NumVnets |-> {0}] >>
    /\ m_outports_dirn2idx = EmptyMap
    /\ m_outports_idx2dirn = EmptyMap
    /\ m_inports_dirn2idx = EmptyMap
    /\ m_inports_idx2dirn = EmptyMap
    /\ \E t \in TorusSizes(MaxNetDim, MaxNetRouters), alg \in Algorithms :
       \E id \in 0 .. (t[1] * t[2] * t[3] - 1) :
          net = NetCfg(id, alg, {0}, t[2] * t[3], t[1], t[1], t[2], t[3],
                       MaxVcsPerVnet, MaxVcsPerVnet)
    /\ ret = NoRet
    /\ pkt = NoPkt

NextRouter ==
    \/ \E d \in Dirs, p \in 0 .. MaxPort :
          /\ Cardinality(DOMAIN m_outports_dirn2idx) < MaxRegistered
          /\ addOutDirection(d, p)
    \/ \E dest \in 0 .. (net.torus_x * net.torus_y * net.torus_z - 1),
          v \in Vnets, nd \in EntryDests, dirn \in InportDirns :
          outportCompute([dest_router |-> dest, vnet |-> v, net_dest |-> nd],
                         dirn)

SpecRouter == InitRouter /\ [][NextRouter]_vars

-----------------------------------------------------------------------------
(* Claims about the routing table engine *)

IsLookup == ret.op = "lookupRoutingTable"

\* the links (0-based) of class vnet whose entry intersects dest
IntersectingLinks(vnet, dest) ==
    { l \in 0 .. (Len(m_routing_table[vnet + 1]) - 1) :
        m_routing_table[vnet + 1][l + 1] \cap dest # {} }

\* those of least weight among them
MinWeightLinks(vnet, dest) ==
    { l \in IntersectingLinks(vnet, dest) :
        \A k \in IntersectingLinks(vnet, dest) :
            m_weight_table[l + 1] <= m_weight_table[k + 1] }

LowestIndex(S) == CHOOSE l \in S : \A k \in S : l <= k

\* the lookup just made was on tables in which every link of the class
\* has a weight
LookupOnWeightedLinks ==
    /\ IsLookup
    /\ WeightsInRange(m_routing_table, m_weight_table, ret.vnet)

\* C1: lookupRoutingTable aborts with the no-route fatal error exactly when
\* no candidate link of the class intersects the destination set; otherwise
\* it returns, never -1, an intersecting link of minimum weight among the
\* intersecting links, whatever the integer weights are.
C1_LookupMinWeight ==
    LookupOnWeightedLinks =>
        /\ (ret.outcome = "fatal") <=> (IntersectingLinks(ret.vnet, ret.dest) = {})
        /\ IntersectingLinks(ret.vnet, ret.dest) # {} =>
              /\ ret.outcome = "return"
              /\ ret.port # NoPort
              /\ ret.port \in MinWeightLinks(ret.vnet, ret.dest)

\* C2: for an ordered class lookupRoutingTable returns the lowest-indexed
\* minimum-weight intersecting link, whatever rand() yields, so equal
\* queries on the same tables get equal ports.
C2_OrderedLowestIndex ==
    (LookupOnWeightedLinks /\ isVNetOrdered(ret.vnet)
        /\ IntersectingLinks(ret.vnet, ret.dest) # {}) =>
        /\ ret.outcome = "return"
        /\ ret.port = LowestIndex(MinWeightLinks(ret.vnet, ret.dest))
\* C12: after any sequence of addRoute and addWeight calls, entry k of every
\* traffic class's candidate-link list is the entry the k-th addRoute call
\* supplied for that class (the one lookupRoutingTable pairs with the k-th
\* weight), also when the calls' entry vectors differ in length.
C12_IndexAligned ==
    \A v \in 1 .. Len(m_routing_table) :
        \A k \in 1 .. Len(m_routing_table[v]) :
            /\ k <= Len(calls)
            /\ v <= Len(calls[k])
            /\ m_routing_table[v][k] = calls[k][v]

-----------------------------------------------------------------------------
(* Claims about the torus routers *)

\* the coordinates (x, y, z) with id = z*(X*Y) + y*X + x
CoordOf(id) ==
    CHOOSE c \in [x : 0 .. (net.torus_x - 1), y : 0 .. (net.torus_y - 1),
                  z : 0 .. (net.torus_z - 1)] :
        id = c.z * (net.torus_x * net.torus_y) + c.y * net.torus_x + c.x

\* steps from cur to dst going up, and going down, around a ring of dim
Fwd(cur, dst, dim) == CHOOSE k \in 0 .. (dim - 1) : (cur + k) % dim = dst
Bwd(cur, dst, dim) == CHOOSE k \in 0 .. (dim - 1) : (dst + k) % dim = cur
Wrap(cur, dst, dim) ==
    IF Fwd(cur, dst, dim) <= Bwd(cur, dst, dim)
    THEN Fwd(cur, dst, dim) ELSE Bwd(cur, dst, dim)

\* the direction on one axis: forward exactly when forward <= backward
AxisDirn(cur, dst, dim, fwd, bwd) ==
    IF Fwd(cur, dst, dim) <= Bwd(cur, dst, dim) THEN fwd ELSE bwd

\* the minimal-path directions from router a to router b, per axis
MinimalDirns(a, b) ==
    LET ca == CoordOf(a)
        cb == CoordOf(b)
    IN  [x |-> IF Wrap(ca.x, cb.x, net.torus_x) = 0 THEN "None"
               ELSE AxisDirn(ca.x, cb.x, net.torus_x, "East", "West"),
         y |-> IF Wrap(ca.y, cb.y, net.torus_y) = 0 THEN "None"
               ELSE AxisDirn(ca.y, cb.y, net.torus_y, "North", "South"),
         z |-> IF Wrap(ca.z, cb.z, net.torus_z) = 0 THEN "None"
               ELSE AxisDirn(ca.z, cb.z, net.torus_z, "Up", "Down")]

\* the one on the first axis, in the order X, Y, Z, with nonzero distance
FirstAxisDirn(a, b) ==
    LET m == MinimalDirns(a, b)
    IN  IF m.x # "None" THEN m.x ELSE IF m.y # "None" THEN m.y ELSE m.z

IsTorusDORQuery == ret.op = "outportComputeTorus3D" /\ ret.dest # net.id

\* C3: torus DOR picks, for distinct routers, the first axis in the order
\* X, Y, Z with nonzero wraparound distance, forward exactly when
\* forward <= backward; 4x4x1, router 0 to router 10 yields East.
C3_TorusDOR ==
    IsTorusDORQuery =>
        /\ ret.dirn = FirstAxisDirn(net.id, ret.dest)
        /\ (net.torus_x = 4 /\ net.torus_y = 4 /\ net.torus_z = 1
              /\ net.id = 0 /\ ret.dest = 10) => ret.dirn = "East"

\* a tie on the X axis of the 4x4x1 torus resolved for router 0 -> 10
C3_Witness ==
    /\ IsTorusDORQuery
    /\ net.torus_x = 4 /\ net.torus_y = 4 /\ net.torus_z = 1
    /\ net.id = 0 /\ ret.dest = 10
    /\ Fwd(0, 2, 4) = Bwd(0, 2, 4)
    /\ ret.outcome = "return" /\ ret.dirn = "East"

IsAdaptiveQuery ==
    ret.op = "outportComputeTorus3DAdaptive" /\ ret.dest # net.id

\* the channels of a port outside the escape channel of each vnet
NonEscapeVcs == { v \in 0 .. (net.num_vcs - 1) : v % net.vcs_per_vnet # 0 }

\* the minimal-path candidate directions of the last query
CandidateDirns ==
    LET m == MinimalDirns(net.id, ret.dest)
    IN  { m.x, m.y, m.z } \ { "None" }

\* idle non-escape channels the query saw on the port of direction c
IdleNonEscape(c) ==
    IF c \in DOMAIN m_outports_dirn2idx
    THEN Cardinality(ret.idle[m_outports_dirn2idx[c]] \cap NonEscapeVcs)
    ELSE 0

\* C5: when every minimal-path candidate direction has zero idle
\* non-escape channels, the adaptive router yields the direction and port
\* that outportComputeTorus3D yields for the same query.
C5_EscapeMatchesDOR ==
    (IsAdaptiveQuery /\ \A c \in CandidateDirns : IdleNonEscape(c) = 0) =>
        LET dor == Torus3DResult(m_outports_dirn2idx, net, ret.dest)
        IN  /\ ret.outcome = dor.outcome
            /\ ret.dirn = dor.dirn
            /\ ret.port = dor.port

\* the fallback taken with three busy candidates and a port returned
C5_Witness ==
    /\ IsAdaptiveQuery
    /\ Cardinality(CandidateDirns) = 3
    /\ NonEscapeVcs # {}
    /\ \A c \in CandidateDirns : IdleNonEscape(c) = 0
    /\ ret.escape /\ ret.outcome = "return"

\* C6: when exactly one minimal-path candidate direction has an idle
\* non-escape channel, the adaptive router selects it, whatever rand()
\* yields and wherever it stands in the candidate order.
C6_OnlyIdleCandidateWins ==
    IsAdaptiveQuery =>
        \A c \in CandidateDirns :
            (/\ IdleNonEscape(c) > 0
             /\ \A o \in CandidateDirns \ {c} : IdleNonEscape(o) = 0) =>
                /\ ret.outcome = "return"
                /\ ret.dirn = c
                /\ ret.port = m_outports_dirn2idx[c]

\* the last of three candidates is the only one with an idle channel
C6_Witness ==
    /\ IsAdaptiveQuery
    /\ Cardinality(CandidateDirns) = 3
    /\ LET m == MinimalDirns(net.id, ret.dest)
       IN  /\ IdleNonEscape(m.z) > 0
           /\ IdleNonEscape(m.x) = 0 /\ IdleNonEscape(m.y) = 0
           /\ m.x \in DOMAIN m_outports_dirn2idx
           /\ ret.dirn = m.z

\* the minimal-path candidates in the order X, Y, Z
CandidateSeq ==
    LET m == MinimalDirns(net.id, ret.dest)
    IN  SelectSeq(<<m.x, m.y, m.z>>, LAMBDA c : c # "None")

\* positions in cs of the candidates that are registered and have at least
\* one idle non-escape channel
EligibleIn(cs) ==
    { i \in 1 .. Len(cs) :
        /\ cs[i] \in DOMAIN m_outports_dirn2idx
        /\ IdleNonEscape(cs[i]) > 0 }

Eligible == EligibleIn(CandidateSeq)

\* non-escape channels of the port minus the idle ones, plus the
\* perturbation in 0..2 drawn for candidate i of cs
ScoreIn(cs, i) ==
    Cardinality(NonEscapeVcs) - IdleNonEscape(cs[i]) + (ret.rands[i] % 3)

Score(i) == ScoreIn(CandidateSeq, i)

\* C11: the adaptive router selects, among the registered minimal-path
\* candidates with an idle non-escape channel, one of lowest score
\* (non-escape channels minus idle non-escape channels plus a perturbation
\* in 0..2), the earliest in X, Y, Z order on equal scores; the selected
\* direction is always a minimal-path candidate.
C11_AdaptiveSelection ==
    IsAdaptiveQuery =>
        \A cs \in { CandidateSeq } :
        \A el \in { EligibleIn(cs) } :
        \A sc \in { [i \in el |-> ScoreIn(cs, i)] } :
            /\ \E i \in 1 .. Len(cs) : ret.dirn = cs[i]
            /\ el # {} =>
                  \E i \in el :
                     /\ ret.outcome = "return" /\ ~ret.escape
                     /\ ret.dirn = cs[i]
                     /\ ret.port = m_outports_dirn2idx[cs[i]]
                     /\ \A j \in el : sc[i] <= sc[j]
                     /\ \A j \in el : j < i => sc[i] < sc[j]

\* three eligible candidates: the first scores worst, the second and the
\* third tie for the lowest score and the second is selected
C11_Witness ==
    /\ IsAdaptiveQuery
    /\ Eligible = {1, 2, 3}
    /\ Score(2) = Score(3) /\ Score(2) < Score(1)
    /\ ret.rands[2] % 3 # ret.rands[3] % 3
    /\ ret.dirn = CandidateSeq[2]

\* sum over the three axes of min(forward, backward) from router a to b
TorusHops(a, b) ==
    LET ca == CoordOf(a)
        cb == CoordOf(b)
    IN  Wrap(ca.x, cb.x, net.torus_x) + Wrap(ca.y, cb.y, net.torus_y)
            + Wrap(ca.z, cb.z, net.torus_z)

\* C13: on a torus with all six directions registered, a packet forwarded
\* hop by hop by either torus router never aborts, every hop reduces the
\* summed minimal axis distance to the destination by exactly one, and the
\* packet is at its destination exactly when that distance is used up.
C13_TorusWalk ==
    pkt.at \in {"head", "at_dest", "aborted"} =>
        /\ pkt.at # "aborted"
        /\ pkt.hops + TorusHops(net.id, pkt.dest_router)
              = TorusHops(pkt.src_router, pkt.dest_router)
        /\ (pkt.at = "at_dest") <=> (net.id = pkt.dest_router)
        /\ (pkt.at = "at_dest") =>
              pkt.hops = TorusHops(pkt.src_router, pkt.dest_router)

\* an adaptively routed packet has arrived after three hops, its last one
\* not on the escape channel
C13_Witness ==
    /\ pkt.at = "at_dest"
    /\ net.routing_algorithm = "TORUS3D_ADAPTIVE_"
    /\ pkt.hops = 3 /\ TorusHops(pkt.src_router, pkt.dest_router) = 3
    /\ ret.op = "outportComputeTorus3DAdaptive" /\ ~ret.escape

\* C7: the channel dependencies of escape-channel traffic routed in
\* dimension order on a torus contain no cycle: no chain of dependencies
\* leads from a link back to itself.
C7_EscapeAcyclic == ~(pkt.steps > 0 /\ pkt.link = pkt.start)

-----------------------------------------------------------------------------
(* Claims about mesh dimension-order routing *)

\* the coordinates (x, y) with id = y * cols + x
MeshCoordOf(id) ==
    CHOOSE c \in [x : 0 .. (net.num_cols - 1), y : 0 .. (net.num_rows - 1)] :
        id = c.y * net.num_cols + c.x

Manhattan(a, b) ==
    Abs(MeshCoordOf(b).x - MeshCoordOf(a).x)
    + Abs(MeshCoordOf(b).y - MeshCoordOf(a).y)

\* X first by the sign of dx, Y by the sign of dy only when dx = 0
MeshExpectedDirn(a, b) ==
    LET dx == MeshCoordOf(b).x - MeshCoordOf(a).x
        dy == MeshCoordOf(b).y - MeshCoordOf(a).y
    IN  IF dx > 0 THEN "East" ELSE IF dx < 0 THEN "West"
        ELSE IF dy > 0 THEN "North" ELSE "South"

IsXYQuery == ret.op = "outportComputeXY"

\* C4: for two distinct mesh coordinates outportComputeXY returns a
\* direction registered at the router, East/West by the sign of dx whenever
\* dx # 0 whatever dy is, North/South by the sign of dy only when dx = 0.
C4_MeshDOR ==
    IsXYQuery =>
        /\ ret.outcome = "return"
        /\ ret.registered
        /\ ret.dirn = MeshExpectedDirn(ret.my_id, ret.dest)

\* a query with both dx and dy nonzero answered along X
C4_Witness ==
    /\ IsXYQuery
    /\ ret.outcome = "return"
    /\ MeshCoordOf(ret.dest).x # MeshCoordOf(ret.my_id).x
    /\ MeshCoordOf(ret.dest).y # MeshCoordOf(ret.my_id).y
    /\ ret.dirn \in {"East", "West"}

\* C10: a packet injected on the Local inport and forwarded by
\* outportComputeXY never fails an arrival-direction assertion, gets one
\* hop closer at every hop and is at its destination after exactly
\* |dx| + |dy| hops.
C10_MeshWalk ==
    /\ pkt.at \in {"head", "at_dest"}
    /\ pkt.hops + Manhattan(net.id, pkt.dest_router)
          = Manhattan(pkt.src, pkt.dest_router)
    /\ (pkt.at = "at_dest") <=> (net.id = pkt.dest_router)
    /\ pkt.at = "at_dest" => pkt.hops = Manhattan(pkt.src, pkt.dest_router)

\* a delivered packet that turned from the X axis to the Y axis
C10_Witness ==
    /\ pkt.at = "at_dest"
    /\ pkt.hops >= 3
    /\ MeshCoordOf(pkt.src).x # MeshCoordOf(pkt.dest_router).x
    /\ MeshCoordOf(pkt.src).y # MeshCoordOf(pkt.dest_router).y
    /\ pkt.inport_dirn \in {"North", "South"}
-----------------------------------------------------------------------------
(* Claims about the dispatcher *)

IsDispatch == ret.op = "outportCompute"

DirectionBased ==
    {"outportComputeXY", "outportComputeTorus3D",
     "outportComputeTorus3DAdaptive"}

Aborted == ret.outcome \in {"fatal", "panic", "assert"}

\* C8: whenever the direction a direction-based algorithm resolved has no
\* port registered through addOutDirection, outportCompute aborts and
\* returns no port index.
C8_UnregisteredIsFatal ==
    (IsDispatch /\ ret.via \in DirectionBased /\ ~ret.registered) => Aborted

\* C9: a query whose destination router is this router is resolved by
\* lookupRoutingTable(vnet, net_dest) and by no topology-specific router,
\* whatever the algorithm selector is, so it meets none of their panics.
C9_DestinationLocal ==
    (IsDispatch /\ ret.dest_router = net.id) =>
        /\ ret.via = "lookupRoutingTable"
        /\ ret.outcome \in {"return", "fatal"}
        /\ \E rnd \in Rands :
              [outcome |-> ret.outcome, port |-> ret.port] \in
                  lookupOutcomes(m_routing_table, m_weight_table,
                                 isVNetOrdered(ret.args.vnet), ret.args.vnet,
                                 ret.args.net_dest, rnd)

\* destination-local delivery under the custom selector returns the link
C9_Witness ==
    /\ IsDispatch
    /\ ret.dest_router = net.id
    /\ net.routing_algorithm = "CUSTOM_"
    /\ ret.via = "lookupRoutingTable"
    /\ ret.outcome = "return" /\ ret.port = 0

\* C14: no call to outportCompute, whatever the selector and the query,
\* changes the routing table, the weight table or the direction maps.
C14_ReadOnly ==
    [][ret'.op = "outportCompute" =>
          /\ m_routing_table' = m_routing_table
          /\ m_weight_table' = m_weight_table
          /\ m_outports_dirn2idx' = m_outports_dirn2idx
          /\ m_outports_idx2dirn' = m_outports_idx2dirn
          /\ m_inports_dirn2idx' = m_inports_dirn2idx
          /\ m_inports_idx2dirn' = m_inports_idx2dirn]_vars

====
